---- MODULE Spec2Model ----
(***************************************************************************)
(* State-machine model of gpax/vidkl.py: the viDKL model instance, its     *)
(* fitted fields, the jit caches of get_mvn_posterior and embed, and the   *)
(* position of a fit call.                                                 *)
(*                                                                         *)
(* Numeric collaborators (network, optimizer, kernel formulas, matrix      *)
(* inverse) are integer stand-ins: small modular arithmetic that keeps the *)
(* dependence of each result on its arguments.                             *)
(***************************************************************************)
EXTENDS Integers, Sequences, FiniteSets, TLC

VARIABLES
    config,         \* constructor arguments kept on the instance
    X_train,        \* self.X_train
    y_train,        \* self.y_train
    nn_params,      \* self.nn_params
    kernel_params,  \* self.kernel_params
    embed_cache,    \* jit cache of embed: input shape -> constants baked at trace time
    mvn_cache,      \* jit cache of get_mvn_posterior: (input shape, params given) -> baked constants
    pc,             \* position of the fit call: "idle" or "run" (inside svi.run)
    call,           \* locals of the fit call in progress
    src,            \* for each fitted field, the number of the fit call that wrote it;
                    \* new_data: the last fit call was given other data than the one before
    last,           \* the last call that returned or raised, with its result
    embed_log,      \* the successful embed calls so far: input, self.nn_params, output
    fitted,         \* a fit call has completed
    nfit,           \* fit calls started
    npred,          \* prediction calls made
    budget          \* the calls a behaviour may make: [fits, preds]

fields == <<X_train, y_train, nn_params, kernel_params>>
caches == <<embed_cache, mvn_cache>>
vars == <<config, X_train, y_train, nn_params, kernel_params, embed_cache,
          mvn_cache, pc, call, src, last, embed_log, fitted, nfit, npred, budget>>

----------------------------------------------------------------------------
(* Bounds *)
MaxRows == 2      \* rows of an input array
MaxSteps == 2     \* num_steps is 0..MaxSteps
MaxKey == 1       \* rng keys are 0..MaxKey
Modulus == 3      \* parameter and latent values are residues mod Modulus
MaxFits == 2      \* fit calls in a behaviour
MaxPreds == 2     \* prediction calls in a behaviour

----------------------------------------------------------------------------
(* Python values *)
None == [py_none |-> TRUE]
Raise(e) == [error |-> e]
IsError(r) == "error" \in DOMAIN r

\* arrays: a shape and the flat data
Array(shape, data) == [shape |-> shape, data |-> data]
\* the input arrays: n rows, row i holding the value i, as a vector (n,) or
\* as a column (n, 1)
Ramp(n) == [i \in 1..n |-> i]
Arrays1D == {Array(<<n>>, Ramp(n)) : n \in 1..MaxRows}
Arrays2D == {Array(<<n, 1>>, Ramp(n)) : n \in 1..MaxRows}
ndim(a) == Len(a.shape)
Rows(a) == IF a = None THEN 0 ELSE a.shape[1]

RECURSIVE SumSeq(_)
SumSeq(s) == IF s = <<>> THEN 0 ELSE Head(s) + SumSeq(Tail(s))

Abs(i) == IF i < 0 THEN -i ELSE i

----------------------------------------------------------------------------
(* Configuration: the constructor's arguments *)
Kernels == {"RBF", "Matern", "Periodic"}
\* kernel_prior: omitted, or a user function that samples the kernel's
\* hyperparameters under a hyper-prior of its own
KernelPriors == {None, [fn |-> "hierarchical"]}
\* latent_prior: omitted, or a user function that declares a random variable
LatentPriors == {None, [fn |-> "sampling"]}
\* nn: omitted (the default MLP, deterministic) or a network with a
\* stochastic layer, which uses the seed given to apply
Networks == {"MLP", "dropout"}

\* __init__
viDKL(kernel, kernel_prior, nn, latent_prior) ==
    [kernel |-> kernel, kernel_prior |-> kernel_prior,
     nn_module |-> nn, latent_prior |-> latent_prior,
     kernel_dim |-> 1, data_dim |-> <<1>>]

Configs == {viDKL(k, kp, nn, lp) :
              k \in Kernels, kp \in KernelPriors, nn \in Networks, lp \in LatentPriors}

\* the fitted fields after construction
InitFittedPreset == [X_train |-> None, y_train |-> None,
                  nn_params |-> [w |-> 0], kernel_params |-> None]
InitFitted == [X_train |-> None, y_train |-> None,
               nn_params |-> None, kernel_params |-> None]

----------------------------------------------------------------------------
(* The probabilistic model: the sample sites it declares *)

\* hyperparameter names the kernel function reads from its params argument
KernelKeys(kernel) ==
    IF kernel = "Periodic" THEN {"k_length", "k_scale", "period"}
    ELSE {"k_length", "k_scale"}

\* ExactGP._sample_kernel_params: one site per hyperparameter of the kernel
SampleKernelParams(kernel) == KernelKeys(kernel)

\* sites of the user's kernel_prior / latent_prior
KernelPriorSites(cfg) == KernelKeys(cfg.kernel) \cup {"k_hyper"}
LatentPriorSites(cfg) == IF cfg.latent_prior = None THEN {} ELSE {"z_scale"}

\* model(X, y): the sample sites traced by the inference engine
modelNoNoise(cfg) ==
    LatentPriorSites(cfg)
    \cup (IF cfg.kernel_prior # None THEN KernelPriorSites(cfg)
          ELSE SampleKernelParams(cfg.kernel))
model(cfg) ==
    LatentPriorSites(cfg)
    \cup (IF cfg.kernel_prior # None THEN KernelPriorSites(cfg)
          ELSE SampleKernelParams(cfg.kernel))
    \cup {"noise"}

----------------------------------------------------------------------------
(* Collaborators *)

\* nn_module.apply(params, seed, X): one latent coordinate per row
Apply(nn, params, seed, X) ==
    IF params = None THEN Raise("missing parameter")
    ELSE IF X = None \/ ndim(X) # 2 THEN Raise("shape")
    ELSE Array(<<Rows(X), 1>>,
               [i \in 1..Rows(X) |->
                  (params.w + X.data[i] + (IF nn = "dropout" THEN seed ELSE 0)) % Modulus])

\* SVI: the optimizer state is one residue; a step moves it by the loss
\* gradient of the full batch
SviInit(rng_key) == rng_key % Modulus
SviUpdate(opt, X, y) == (opt + 1 + SumSeq(X.data) + SumSeq(y.data)) % Modulus
\* the params dictionary svi.run returns
SviParams(opt, sites) ==
    [nn |-> [w |-> opt], loc |-> [s \in sites |-> 1 + opt]]
\* AutoDelta.median: the point estimate of every sample site
Median(params) == params.loc

\* kernel functions: (Z1, Z2, params, noise, jitter) -> covariance matrix
DefaultNoise == 0
DefaultJitter == 1
KernelBase(kernel, a, b, params) ==
    LET d == Abs(a - b) IN
    CASE kernel = "RBF" -> params["k_scale"] * (Modulus - d) + params["k_length"]
      [] kernel = "Matern" -> params["k_scale"] * (Modulus - d) * 2 + params["k_length"]
      [] kernel = "Periodic" ->
            params["k_scale"] * (Modulus - (d % params["period"])) + params["k_length"]
get_kernel(kernel, Z1, Z2, params, noise, jitter) ==
    [i \in 1..Rows(Z1) |->
       [j \in 1..Rows(Z2) |->
          KernelBase(kernel, Z1.data[i], Z2.data[j], params)
          + (IF Z1.shape = Z2.shape /\ i = j THEN noise + jitter ELSE 0)]]

----------------------------------------------------------------------------
(* Prediction: get_mvn_posterior, predict, embed *)

\* jax.random.PRNGKey(0), the seed of every prediction-time apply
PRNGKeyFresh == npred
PRNGKey0 == 0

\* the instance as a prediction reads it
Self == [X_train |-> X_train, y_train |-> y_train,
         nn_params |-> nn_params, kernel_params |-> kernel_params, src |-> src]

\* the three covariance blocks
K_pp(kernel, z_test, params, noise) ==
    get_kernel(kernel, z_test, z_test, params, noise, DefaultJitter)
K_pXNoisy(kernel, z_test, z_train, params, noise) ==
    get_kernel(kernel, z_test, z_train, params, noise, DefaultJitter)
K_pX(kernel, z_test, z_train, params, noise) ==
    get_kernel(kernel, z_test, z_train, params, DefaultNoise, 0)
K_XX(kernel, z_train, params, noise) ==
    get_kernel(kernel, z_train, z_train, params, noise, DefaultJitter)

\* The body of get_mvn_posterior, on the instance `self` it was traced with.
\* mean and cov are kept as the terms k_pX inv(k_XX) y and
\* k_pp - k_pX inv(k_XX) k_pX^T over their arguments.
Posterior(self, X_new, params) ==
    LET p == IF params = None THEN self.kernel_params ELSE params IN
    IF p = None THEN Raise("None is not subscriptable")
    ELSE IF "noise" \notin DOMAIN p THEN Raise("KeyError")
    ELSE
      LET noise == p["noise"]
          z_train == Apply(config.nn_module, self.nn_params, PRNGKey0, self.X_train)
          z_test == Apply(config.nn_module, self.nn_params, PRNGKey0, X_new)
      IN IF IsError(z_train) THEN z_train
         ELSE IF IsError(z_test) THEN z_test
         ELSE IF Rows(self.y_train) # Rows(z_train) THEN Raise("shape")
         ELSE
           LET k_pp == K_pp(config.kernel, z_test, p, noise)
               k_pX == K_pX(config.kernel, z_test, z_train, p, noise)
               k_XX == K_XX(config.kernel, z_train, p, noise)
           IN [mean |-> [k_pX |-> k_pX, k_XX |-> k_XX, y |-> self.y_train],
               cov |-> [k_pp |-> k_pp, k_pX |-> k_pX, k_XX |-> k_XX],
               z_test |-> z_test, z_train |-> z_train, params |-> p]

\* jit with self static: one trace per (input shape, structure of params);
\* what the trace read from self is a constant of the compiled function
Shapes == {<<m, 1>> : m \in 1..MaxRows}
MvnKeys == Shapes \X BOOLEAN
MvnKey(X_new, params) == <<X_new.shape, params # None>>

get_mvn_posterior(X_new, params) ==
    LET key == MvnKey(X_new, params)
        hit == mvn_cache[key] # None
        self == IF hit THEN mvn_cache[key] ELSE Self
        out == Posterior(self, X_new, params)
    IN [out |-> out, hit |-> hit, self |-> self,
        cache |-> IF hit \/ IsError(out) THEN mvn_cache
                  ELSE [mvn_cache EXCEPT ![key] = Self]]

\* ExactGP._predict: the posterior, then n samples drawn with rng_key
Predict_(rng_key, X_new, params, n) ==
    LET r == get_mvn_posterior(X_new, params) IN
    [r EXCEPT !.out =
        IF IsError(r.out) THEN r.out
        ELSE [y_mean |-> r.out.mean,
              y_sampled |-> [rng_key |-> rng_key, n |-> n,
                             mean |-> r.out.mean, cov |-> r.out.cov],
              post |-> r.out]]

\* what predict leaves in self.kernel_params
PredictStoresArg(kp) == IF kp = None THEN kernel_params ELSE kp
PredictStores(kp) == kernel_params

GetMvnPosterior(X_new, params) ==
    /\ npred < budget.preds
    /\ LET r == get_mvn_posterior(X_new, params) IN
         /\ mvn_cache' = r.cache
         /\ last' = [op |-> "get_mvn_posterior", X |-> X_new, params |-> params,
                     out |-> r.out, hit |-> r.hit, self |-> r.self, during |-> pc,
                      src |-> src]
    /\ npred' = npred + 1
    /\ UNCHANGED <<budget, config, fields, embed_cache, pc, call, src, embed_log, fitted, nfit>>

Predict(rng_key, X_new, kp, n) ==
    /\ npred < budget.preds
    /\ LET params == IF kp = None THEN kernel_params ELSE kp
           r == Predict_(rng_key, X_new, params, n)
       IN /\ mvn_cache' = r.cache
          /\ last' = [op |-> "predict", X |-> X_new, params |-> params,
                      out |-> r.out, hit |-> r.hit, self |-> r.self, during |-> pc,
                      src |-> src]
    /\ kernel_params' = PredictStores(kp)
    /\ npred' = npred + 1
    /\ UNCHANGED <<budget, config, X_train, y_train, nn_params, embed_cache, pc, call,
                   src, embed_log, fitted, nfit>>

Embed(X_new) ==
    /\ npred < budget.preds
    /\ LET key == X_new.shape
           hit == embed_cache[key] # None
           used == IF hit THEN embed_cache[key] ELSE nn_params
           z == Apply(config.nn_module, used, PRNGKey0, X_new)
       IN /\ embed_cache' = IF hit \/ IsError(z) THEN embed_cache
                            ELSE [embed_cache EXCEPT ![key] = nn_params]
          /\ last' = [op |-> "embed", X |-> X_new, out |-> z, hit |-> hit,
                      self |-> [nn_params |-> used], during |-> pc, src |-> src]
          /\ embed_log' = IF IsError(z) THEN embed_log
                          ELSE embed_log \cup {[n |-> npred, X |-> X_new,
                                             nn_params |-> nn_params, z |-> z]}
    /\ npred' = npred + 1
    /\ UNCHANGED <<budget, config, fields, mvn_cache, pc, call, src, fitted, nfit>>

----------------------------------------------------------------------------
(* fit *)

\* X = X if X.ndim > 1 else X[:, None]
Coerce(X) == IF ndim(X) > 1 THEN X ELSE Array(<<X.shape[1], 1>>, X.data)

\* what fit has written to X_train, y_train when the optimization starts
FitStoresLate(X, y) == [X_train |-> X_train, y_train |-> y_train,
                        src |-> src]
FitStores(X, y) == [X_train |-> X, y_train |-> y,
                    src |-> [src EXCEPT !.X_train = nfit + 1, !.y_train = nfit + 1,
                                        !.new_data = (X # X_train \/ y # y_train)]]

\* svi.run refuses a step count below one, and the likelihood refuses
\* targets whose length is not the number of rows of X
SviValid(c) == c.num_steps >= 1 /\ Rows(c.X) = Rows(c.y)
\* svi.run(rng_key, num_steps) has taken its num_steps steps
SviDoneEarly(c) == c.step >= 1
SviDone(c) == c.step = c.num_steps

\* the locals of fit when no call is in progress
NoCall == [rng_key |-> 0, X |-> None, y |-> None,
           num_steps |-> 0, step |-> 0, opt |-> 0, batches |-> {}]

\* lines 89-101: coerce X, store the data, set up optimizer and SVI
Fit_begin(rng_key, X, y, num_steps) ==
    /\ pc = "idle"
    /\ nfit < budget.fits
    /\ LET Xc == Coerce(X)
           st == FitStores(Xc, y)
       IN /\ X_train' = st.X_train
          /\ y_train' = st.y_train
          /\ src' = st.src
          /\ call' = [rng_key |-> rng_key, X |-> Xc, y |-> y,
                      num_steps |-> num_steps, step |-> 0, opt |-> SviInit(rng_key),
                      batches |-> {}]
    /\ pc' = "run"
    /\ nfit' = nfit + 1
    /\ UNCHANGED <<budget, config, nn_params, kernel_params, caches, last, embed_log,
                   fitted, npred>>

\* line 102: one optimizer step of svi.run, on the batch SVI was built with
Fit_step ==
    /\ pc = "run"
    /\ SviValid(call)
    /\ ~SviDone(call)
    /\ call' = [call EXCEPT !.step = @ + 1,
                            !.opt = SviUpdate(@, call.X, call.y),
                            !.batches = @ \cup {<<call.X, call.y>>}]
    /\ UNCHANGED <<budget, config, fields, caches, pc, src, last, embed_log, fitted,
                   nfit, npred>>

\* line 102: svi.run raises; the exception leaves fit
Fit_raise ==
    /\ pc = "run"
    /\ ~SviValid(call)
    /\ last' = [op |-> "fit", out |-> Raise("svi.run")]
    /\ pc' = "idle"
    /\ call' = NoCall
    /\ UNCHANGED <<budget, config, fields, caches, src, embed_log, fitted, nfit, npred>>

\* lines 102-108: svi.run returns; store the point estimates, print them
Fit_end(print_summary) ==
    /\ pc = "run"
    /\ SviValid(call)
    /\ SviDone(call)
    /\ LET params == SviParams(call.opt, model(config)) IN
         /\ nn_params' = params.nn
         /\ kernel_params' = Median(params)
         /\ last' = [op |-> "fit", out |-> None, steps |-> call.step,
                     printed |-> IF print_summary THEN DOMAIN Median(params) ELSE {}]
    /\ src' = [src EXCEPT !.nn_params = nfit, !.kernel_params = nfit]
    /\ pc' = "idle"
    /\ call' = NoCall
    /\ fitted' = TRUE
    /\ UNCHANGED <<budget, config, X_train, y_train, caches, embed_log, nfit, npred>>

----------------------------------------------------------------------------
(* Specifications *)

RngKeys == 0..MaxKey
SampleCounts == {2}
\* an explicit hyperparameter set given to a prediction method
ExplicitParams == {[s \in model(config) |-> Modulus + 1]}

\* the default instance and a fully customised one
LifecycleConfigs == {viDKL("RBF", None, "MLP", None),
                     viDKL("Periodic", [fn |-> "hierarchical"], "dropout",
                           [fn |-> "sampling"])}

InitState ==
    /\ X_train = InitFitted.X_train
    /\ y_train = InitFitted.y_train
    /\ nn_params = InitFitted.nn_params
    /\ kernel_params = InitFitted.kernel_params
    /\ embed_cache = [k \in Shapes |-> None]
    /\ mvn_cache = [k \in MvnKeys |-> None]
    /\ pc = "idle"
    /\ call = NoCall
    /\ src = [X_train |-> 0, y_train |-> 0, nn_params |-> 0, kernel_params |-> 0,
              new_data |-> FALSE]
    /\ last = [op |-> "__init__", out |-> None]
    /\ embed_log = {}
    /\ fitted = FALSE
    /\ nfit = 0
    /\ npred = 0

Init ==
    /\ config \in LifecycleConfigs
    /\ budget = [fits |-> MaxFits, preds |-> MaxPreds]
    /\ InitState

\* every configuration, used once: one fit call and one prediction call
InitOnce ==
    /\ config \in Configs
    /\ budget = [fits |-> 1, preds |-> 1]
    /\ InitState

FitCall ==
    \/ \E rng_key \in RngKeys, X \in Arrays1D \cup Arrays2D, y \in Arrays1D,
          num_steps \in 0..MaxSteps : Fit_begin(rng_key, X, y, num_steps)
    \/ Fit_step
    \/ Fit_raise
    \/ \E print_summary \in BOOLEAN : Fit_end(print_summary)

PredictionCall ==
    \/ \E X_new \in Arrays2D, params \in {None} \cup ExplicitParams :
          GetMvnPosterior(X_new, params)
    \/ \E rng_key \in RngKeys, X_new \in Arrays2D,
          kp \in {None} \cup ExplicitParams, n \in SampleCounts :
          Predict(rng_key, X_new, kp, n)
    \/ \E X_new \in Arrays2D : Embed(X_new)

\* single caller: a prediction starts only when no fit is in progress
Next == FitCall \/ (pc = "idle" /\ PredictionCall)
Spec == Init /\ [][Next]_vars
SpecOnce == InitOnce /\ [][Next]_vars

\* two callers on one instance: predictions interleave with a running fit
NextConc == FitCall \/ PredictionCall
SpecConc == Init /\ [][NextConc]_vars

----------------------------------------------------------------------------
(* Properties *)

PredOps == {"get_mvn_posterior", "predict", "embed"}
Returned(op) == last.op = op /\ ~IsError(last.out)
\* the four fitted fields were written by the same fit call
FittedFields == {"X_train", "y_train", "nn_params", "kernel_params"}
Coherent == \A f \in FittedFields : src[f] = src.X_train
\* the posterior a returned get_mvn_posterior or predict call computed
LastPosterior == IF last.op = "predict" THEN last.out.post ELSE last.out

\* C1: after a fit that returns, all four fitted fields hold that call's
\* values; and when that fit was given other data than the fit before it, a
\* prediction that returns afterwards is computed from the fitted fields as
\* they are when it is called.
C1_FitReplacesAll ==
    /\ (pc = "idle" /\ Returned("fit")) => \A f \in FittedFields : src[f] = nfit
    /\ (pc = "idle" /\ Coherent /\ src.new_data /\ Returned("embed")) =>
          last.out = Apply(config.nn_module, nn_params, 0, last.X)
    /\ (pc = "idle" /\ Coherent /\ src.new_data /\ Returned("get_mvn_posterior")) =>
          last.out = Posterior(Self, last.X, last.params)
    /\ (pc = "idle" /\ Coherent /\ src.new_data /\ Returned("predict")) =>
          last.out.post = Posterior(Self, last.X, last.params)

\* C2: nn_params and kernel_params are None until a fit call has completed,
\* and a prediction call made while one of them is None raises.
C2_NoneUntilFit ==
    /\ ~fitted => (nn_params = None /\ kernel_params = None)
    /\ (last.op \in PredOps /\ (nn_params = None \/ kernel_params = None))
          => IsError(last.out)
C2_Witness ==
    /\ last.op = "predict" /\ last.params # None
    /\ nn_params = None /\ X_train # None
    /\ IsError(last.out)

\* C3: whenever no call is in progress, X_train and y_train have the same
\* number of rows.
C3_RowsAgree == pc = "idle" => Rows(X_train) = Rows(y_train)

\* C4: after a fit call that raised, no fitted field holds a value written
\* by that call, and the four fields come from one earlier fit (or none).
C4_NoPartialResults ==
    (pc = "idle" /\ last.op = "fit" /\ IsError(last.out))
        => (Coherent /\ \A f \in FittedFields : src[f] # nfit)

\* C5: no step changes the configuration, and a prediction call changes
\* none of the fitted fields and takes no optimizer step.
C5_Frame ==
    [][/\ config' = config
       /\ npred' # npred =>
            (fields' = fields /\ src' = src /\ call' = call /\ pc' = pc)]_vars
C5_Witness ==
    /\ Returned("predict") /\ fitted
    /\ last.params # kernel_params

\* C6: two embed calls with the same input and the same nn_params return the
\* same output, and every prediction-time embedding is the network applied
\* with the constant seed 0.
C6_EmbedDeterministic ==
    /\ \A a, b \in embed_log :
          (a.X = b.X /\ a.nn_params = b.nn_params) => a.z = b.z
    /\ Returned("embed") =>
          last.out = Apply(config.nn_module, last.self.nn_params, 0, last.X)
    /\ (last.op \in {"get_mvn_posterior", "predict"} /\ ~IsError(last.out)) =>
          /\ LastPosterior.z_test =
                Apply(config.nn_module, last.self.nn_params, 0, last.X)
          /\ LastPosterior.z_train =
                Apply(config.nn_module, last.self.nn_params, 0, last.self.X_train)
C6_Witness ==
    /\ config.nn_module = "dropout"
    /\ \E a, b \in embed_log :
          a.n # b.n /\ a.X = b.X /\ a.nn_params = b.nn_params /\ a.z = b.z

\* C7 as claimed: with kernel_prior omitted, the keys of kernel_params after
\* a fit are exactly the hyperparameter names of the kernel.
C7_ExactKernelKeys ==
    (fitted /\ config.kernel_prior = None)
        => DOMAIN kernel_params = KernelKeys(config.kernel)
\* C7 as amended: the keys are the kernel's hyperparameter names, "noise",
\* and the random variables of the latent_prior.
C7_KeysOfAllSites ==
    (fitted /\ config.kernel_prior = None)
        => DOMAIN kernel_params =
              KernelKeys(config.kernel) \cup {"noise"} \cup LatentPriorSites(config)
C7_Witness ==
    /\ fitted /\ config.kernel_prior = None
    /\ config.latent_prior # None /\ config.kernel = "Periodic"
    /\ "z_scale" \in DOMAIN kernel_params

\* C8: in a posterior that was computed, k_pX holds the bare kernel values
\* of (z_test, z_train), also on its diagonal when m = n, while the
\* diagonals of k_pp and k_XX carry the noise of the hyperparameter set.
C8_NoNoiseInCross ==
    (last.op \in {"get_mvn_posterior", "predict"} /\ ~IsError(last.out)) =>
      LET o == LastPosterior
          m == Rows(o.z_test)
          n == Rows(o.z_train)
          k(a, b) == KernelBase(config.kernel, a, b, o.params)
      IN /\ o.mean.k_pX = o.cov.k_pX
         /\ \A i \in 1..m, j \in 1..n :
               o.cov.k_pX[i][j] = k(o.z_test.data[i], o.z_train.data[j])
         /\ \A i \in 1..m :
               o.cov.k_pp[i][i] = k(o.z_test.data[i], o.z_test.data[i])
                                    + o.params["noise"] + DefaultJitter
         /\ \A i \in 1..n :
               o.cov.k_XX[i][i] = k(o.z_train.data[i], o.z_train.data[i])
                                    + o.params["noise"] + DefaultJitter
C8_Witness ==
    /\ Returned("get_mvn_posterior")
    /\ Rows(last.X) = Rows(X_train) /\ Rows(last.X) = MaxRows
    /\ last.out.params["noise"] > 0

\* the optimizer state after n steps from opt on the batch (X, y)
RECURSIVE SviRun(_, _, _, _)
SviRun(opt, X, y, n) ==
    IF n = 0 THEN opt ELSE SviRun(SviUpdate(opt, X, y), X, y, n - 1)

\* C9: a fit call that returns has taken exactly num_steps >= 1 optimizer
\* steps, each on the batch (X, y) it was given, and stores the parameters
\* of the optimizer state after those steps; a step is taken only while
\* fewer than num_steps were taken.
C9_ExactSteps ==
    [][/\ (pc = "run" /\ pc' = "idle" /\ ~IsError(last'.out)) =>
            LET params == SviParams(SviRun(SviInit(call.rng_key), call.X, call.y,
                                           call.num_steps), model(config))
            IN /\ call.num_steps >= 1
               /\ call.step = call.num_steps
               /\ last'.steps = call.num_steps
               /\ call.batches = {<<call.X, call.y>>}
               /\ nn_params' = params.nn
               /\ kernel_params' = Median(params)
       /\ (pc = "run" /\ call'.step # call.step /\ pc' = "run") =>
            (call.step < call.num_steps /\ call'.step = call.step + 1)]_vars
C9_Witness ==
    /\ Returned("fit") /\ last.steps >= 2
    /\ pc = "idle" /\ src.nn_params = nfit

\* C10: while a fit call is inside the optimization, X_train and y_train are
\* the running call's and nn_params and kernel_params are from before it;
\* a prediction call made then sees that state.
C10_MixedRead ==
    /\ pc = "run" =>
          /\ X_train = call.X /\ y_train = call.y
          /\ src.X_train = nfit /\ src.y_train = nfit
          /\ src.nn_params < nfit /\ src.kernel_params < nfit
    /\ (last.op \in PredOps /\ last.during = "run") =>
          /\ last.src.X_train = last.src.y_train
          /\ last.src.nn_params = last.src.kernel_params
          /\ last.src.nn_params < last.src.X_train
C10_Witness ==
    /\ Returned("get_mvn_posterior") /\ last.during = "run" /\ ~last.hit
    /\ last.self.src.nn_params = 1 /\ last.self.src.X_train = 2
    /\ pc = "run" /\ last.self.X_train = X_train /\ last.self.nn_params = nn_params

====
